---- MODULE Spec2Model ----
(***************************************************************************)
(* Model of RungeKutta/RK4.py: the fixed-step RK4 solvers firstorder       *)
(* (dy/dt = f(t, y)) and secondorder (du/dt = f(v), dv/dt = g(v, u, t)).   *)
(*                                                                         *)
(* A behaviour constructs one solver object (of either class) and then     *)
(* calls its methods one after the other.  Every method call is one        *)
(* action; solve runs its whole loop inside the action.                    *)
(*                                                                         *)
(* Numbers.  All inputs are integers and every step size is a multiple of  *)
(* 6, and the slope functions are integer valued.  Then h/2, h/6, K*h/2    *)
(* and every other intermediate value of the loop body is an integer of    *)
(* small magnitude, on which Python's float arithmetic (true division,     *)
(* "from __future__ import division") is exact, so \div below is the       *)
(* exact quotient and not a rounding.                                      *)
(*                                                                         *)
(* Slope functions are user code.  Besides returning a number, one         *)
(* invocation per solve call may raise, or return a value that is not a    *)
(* number (None, say); Python then raises TypeError at the first           *)
(* arithmetic operation that uses that value.                              *)
(***************************************************************************)
EXTENDS Integers, Sequences, FiniteSets, TLC

VARIABLES
    obj,     \* class of the constructed object: "firstorder" | "secondorder"
    f,       \* self.f
    g,       \* self.g (secondorder only; "none" for firstorder)
    ts,      \* self.ts
    ys,      \* self.ys (firstorder)
    us,      \* self.us (secondorder)
    vs,      \* self.vs (secondorder)
    calls,   \* number of solve calls made on the object so far
    view,    \* the tuple returned by the caller's last graphvalues():
             \* "none" (never called), "alias" (its lists ARE self.ts and
             \* self.ys) or "detached" (emptyvalues has rebound self.ts and
             \* self.ys to new lists since)
    last     \* the last method call: its name, arguments, outcome and the
             \* slope-function invocations it made

vars == <<obj, f, g, ts, ys, us, vs, calls, view, last>>

----------------------------------------------------------------------------
(* Bounds and input sets *)

\* solve is called at most this many times on the object
MaxCalls == 2

\* the caller does not append to a returned list that is this long
MaxHist == 2

TiVals   == {0, 6}              \* ti
DoneVals == {0, 6, 12, 15}      \* done
HVals    == {-6, 0, 6}          \* h
YVals    == {5}                 \* yi
UVals    == {1}                 \* ui
VVals    == {-1}                \* vi

\* the invocation of a slope function (counted within one solve call) that
\* may be the faulty one: any stage of the first step, or one of a later step
FaultAts == (1..8) \cup {12, 16}

Funcs1 == {"t_minus_y"}        \* f(t, y)
FuncsF == {"id"}               \* f(v)
FuncsG == {"t_minus_u_2v"}     \* g(v, u, t)

NoFault == [kind |-> "none", at |-> 0]
Faults  == {NoFault} \cup [kind : {"raise", "nonnum"}, at : FaultAts]

----------------------------------------------------------------------------
(* The user-supplied slope functions *)

Apply(fn, args) ==
    CASE fn = "t_minus_y"    -> args[1] - args[2]                  \* f(t, y) = t - y
      [] fn = "id"           -> args[1]                            \* f(v) = v
      [] fn = "t_minus_u_2v" -> args[3] - args[2] - 2 * args[1]    \* g(v, u, t) = t - u - 2v

\* invocation number idx (within one solve call) of slope function fn
Call(fn, args, idx, fault) ==
    IF fault.kind # "none" /\ fault.at = idx
      THEN [fn |-> fn, args |-> args, out |-> fault.kind, val |-> 0]
      ELSE [fn |-> fn, args |-> args, out |-> "num", val |-> Apply(fn, args)]

\* the exception a failed invocation ends in: the function's own, or the
\* TypeError of the first arithmetic on its non-numeric result
ErrOf(c) == IF c.out = "raise" THEN "SlopeError" ELSE "TypeError"

----------------------------------------------------------------------------
(* np.arange(ti, done, h): only its length is used by the loops *)

\* with a zero step the division (stop - start) / step that gives the length
\* fails: ZeroDivisionError for plain Python numbers
ArangeFails(start, stop, step) == step = 0

\* as ArangeLen, rounding the quotient down
ArangeLen_Floor(start, stop, step) ==
    LET n == (stop - start) \div step
    IN  IF n > 0 THEN n ELSE 0

\* as ArangeLen, with a marker equal to stop included
ArangeLen_Inclusive(start, stop, step) ==
    LET n == (stop - start) \div step + 1
    IN  IF n > 0 THEN n ELSE 0

\* the length of the range: ceil((stop - start) / step), not below 0
ArangeLen(start, stop, step) ==
    LET n == 0 - ((start - stop) \div step)       \* ceil((stop-start)/step)
    IN  IF n > 0 THEN n ELSE 0

----------------------------------------------------------------------------
(* Expressions the two loop bodies share *)

\* as HalfStep, with the division by 2 forgotten
HalfStep_Full(x, k, h) == x + k * h

\* x + k * h / 2: the state argument of a half-step stage
HalfStep(x, k, h) == x + (k * h) \div 2

\* x + k * h: the state argument of the full-step stage
FullStep(x, k, h) == x + k * h

\* (h / 6) * (a + 2 * b + 2 * c + d): the increment of a dependent variable
Weighted(a, b, c, d, h) == (h \div 6) * (a + 2 * b + 2 * c + d)

\* as AdvanceT, with the append before the increment
AdvanceT_Stale(s, h) == [s EXCEPT !.ti = s.ti + h, !.ts = Append(s.ts, s.ti)]

\* ti += h; self.ts.append(ti)
AdvanceT(s, h) == [s EXCEPT !.ti = s.ti + h, !.ts = Append(s.ts, s.ti + h)]

----------------------------------------------------------------------------
(* firstorder *)

\* the call leaves the loop with exception err, having made the invocations new
Abort(s, new, err) == [s EXCEPT !.log = s.log \o new, !.err = err]

\* body(v): the value v is computed once and then used by body
Bind(v, body(_)) == CHOOSE r \in {body(x) : x \in {v}} : TRUE

\* one iteration of the loop of firstorder.solve; s is the loop's state.
\* A stage that raises, or whose result is not a number, ends the call before
\* the next stage (lines 85, 86, 87, 89 compute with K1, K2, K3, K4).
Step1(s, h, fault) ==
    LET n == Len(s.log)
    IN
    Bind(Call(f, <<s.ti, s.yi>>, n + 1, fault), LAMBDA c1 :                \* K1
      IF c1.out # "num" THEN Abort(s, <<c1>>, ErrOf(c1)) ELSE
    Bind(Call(f, <<s.ti + h \div 2, HalfStep(s.yi, c1.val, h)>>,
              n + 2, fault), LAMBDA c2 :                                   \* K2
      IF c2.out # "num" THEN Abort(s, <<c1, c2>>, ErrOf(c2)) ELSE
    Bind(Call(f, <<s.ti + h \div 2, HalfStep(s.yi, c2.val, h)>>,
              n + 3, fault), LAMBDA c3 :                                   \* K3
      IF c3.out # "num" THEN Abort(s, <<c1, c2, c3>>, ErrOf(c3)) ELSE
    Bind(Call(f, <<s.ti + h, FullStep(s.yi, c3.val, h)>>,
              n + 4, fault), LAMBDA c4 :                                   \* K4
      IF c4.out # "num" THEN Abort(s, <<c1, c2, c3, c4>>, ErrOf(c4)) ELSE
    Bind(s.yi + Weighted(c1.val, c2.val, c3.val, c4.val, h), LAMBDA yi2 :
      AdvanceT([s EXCEPT !.log = s.log \o <<c1, c2, c3, c4>>,
                         !.yi = yi2, !.ys = Append(s.ys, yi2)], h))))))

RECURSIVE Loop1(_, _, _, _)
Loop1(s, n, h, fault) ==
    IF n = 0 \/ s.err # "none" THEN s
    ELSE Bind(Step1(s, h, fault), LAMBDA s1 : Loop1(s1, n - 1, h, fault))

\* as SolveFirst, with a zero step taken for an empty range
SolveFirst_EmptyRange(ts0, ys0, ti, yi, done, h, fault) ==
    LET s0 == [ti |-> ti, yi |-> yi, ts |-> ts0, ys |-> ys0,
               log |-> <<>>, err |-> "none"]
    IN  IF h = 0 THEN s0
        ELSE Loop1(s0, ArangeLen(ti, done, h), h, fault)

\* as SolveFirst, with the loop continuing from the last recorded time
SolveFirst_Chained(ts0, ys0, ti, yi, done, h, fault) ==
    LET t0 == IF ts0 = <<>> THEN ti ELSE ts0[Len(ts0)]
        s0 == [ti |-> t0, yi |-> yi, ts |-> ts0, ys |-> ys0,
               log |-> <<>>, err |-> "none"]
    IN  IF ArangeFails(ti, done, h)
          THEN [s0 EXCEPT !.err = "ZeroDivisionError"]
          ELSE Loop1(s0, ArangeLen(ti, done, h), h, fault)

\* firstorder.solve(ti, yi, done, h) on an object whose lists hold ts0, ys0
SolveFirst(ts0, ys0, ti, yi, done, h, fault) ==
    LET s0 == [ti |-> ti, yi |-> yi, ts |-> ts0, ys |-> ys0,
               log |-> <<>>, err |-> "none"]
    IN  IF ArangeFails(ti, done, h)
          THEN [s0 EXCEPT !.err = "ZeroDivisionError"]
          ELSE Loop1(s0, ArangeLen(ti, done, h), h, fault)

----------------------------------------------------------------------------
(* secondorder *)

\* one iteration of the loop of secondorder.solve.  A stage whose function
\* raises ends the call at once; a result that is not a number ends it at the
\* line that first computes with it (K1: line 224, K2: 227, K3: 230, K4: 232,
\* m1: 223, m2: 226, m3: 229, m4: 235).
Step2(s, h, fault) ==
    LET n == Len(s.log)
    IN
    Bind(Call(f, <<s.vi>>, n + 1, fault), LAMBDA c1 :                      \* K1
      IF c1.out = "raise" THEN Abort(s, <<c1>>, "SlopeError") ELSE
    Bind(Call(g, <<s.vi, s.ui, s.ti>>, n + 2, fault), LAMBDA c2 :          \* m1
      IF c2.out # "num" THEN Abort(s, <<c1, c2>>, ErrOf(c2)) ELSE
    Bind(Call(f, <<HalfStep(s.vi, c2.val, h)>>, n + 3, fault), LAMBDA c3 : \* K2
      IF c3.out = "raise" THEN Abort(s, <<c1, c2, c3>>, "SlopeError") ELSE
      IF c1.out # "num" THEN Abort(s, <<c1, c2, c3>>, "TypeError") ELSE
    Bind(Call(g, <<HalfStep(s.vi, c2.val, h), HalfStep(s.ui, c1.val, h),
                   s.ti + h \div 2>>, n + 4, fault), LAMBDA c4 :           \* m2
      IF c4.out # "num" THEN Abort(s, <<c1, c2, c3, c4>>, ErrOf(c4)) ELSE
    Bind(Call(f, <<HalfStep(s.vi, c4.val, h)>>, n + 5, fault), LAMBDA c5 : \* K3
      IF c5.out = "raise" THEN Abort(s, <<c1, c2, c3, c4, c5>>, "SlopeError") ELSE
      IF c3.out # "num" THEN Abort(s, <<c1, c2, c3, c4, c5>>, "TypeError") ELSE
    Bind(Call(g, <<HalfStep(s.vi, c4.val, h), HalfStep(s.ui, c3.val, h),
                   s.ti + h \div 2>>, n + 6, fault), LAMBDA c6 :           \* m3
      IF c6.out # "num"
        THEN Abort(s, <<c1, c2, c3, c4, c5, c6>>, ErrOf(c6)) ELSE
    Bind(Call(f, <<FullStep(s.vi, c6.val, h)>>, n + 7, fault), LAMBDA c7 : \* K4
      IF c7.out = "raise"
        THEN Abort(s, <<c1, c2, c3, c4, c5, c6, c7>>, "SlopeError") ELSE
      IF c5.out # "num"
        THEN Abort(s, <<c1, c2, c3, c4, c5, c6, c7>>, "TypeError") ELSE
    Bind(Call(g, <<FullStep(s.vi, c6.val, h), FullStep(s.ui, c5.val, h),
                   s.ti + h>>, n + 8, fault), LAMBDA c8 :                  \* m4
      IF c8.out = "raise"
        THEN Abort(s, <<c1, c2, c3, c4, c5, c6, c7, c8>>, "SlopeError") ELSE
      IF c7.out # "num"
        THEN Abort(s, <<c1, c2, c3, c4, c5, c6, c7, c8>>, "TypeError") ELSE
    Bind(s.ui + Weighted(c1.val, c3.val, c5.val, c7.val, h), LAMBDA ui2 :
    Bind([s EXCEPT !.ui = ui2, !.us = Append(s.us, ui2)], LAMBDA s1 :      \* 232-233
      IF c8.out # "num"
        THEN Abort(s1, <<c1, c2, c3, c4, c5, c6, c7, c8>>, "TypeError") ELSE
    Bind(s.vi + Weighted(c2.val, c4.val, c6.val, c8.val, h), LAMBDA vi2 :
      AdvanceT([s1 EXCEPT !.log = s.log \o <<c1, c2, c3, c4, c5, c6, c7, c8>>,
                          !.vi = vi2, !.vs = Append(s.vs, vi2)], h))))))))))))

RECURSIVE Loop2(_, _, _, _)
Loop2(s, n, h, fault) ==
    IF n = 0 \/ s.err # "none" THEN s
    ELSE Bind(Step2(s, h, fault), LAMBDA s1 : Loop2(s1, n - 1, h, fault))

\* secondorder.solve(ti, ui, vi, done, h) on an object whose lists hold
\* ts0, us0, vs0
SolveSecond(ts0, us0, vs0, ti, ui, vi, done, h, fault) ==
    LET s0 == [ti |-> ti, ui |-> ui, vi |-> vi, ts |-> ts0, us |-> us0,
               vs |-> vs0, log |-> <<>>, err |-> "none"]
    IN  IF ArangeFails(ti, done, h)
          THEN [s0 EXCEPT !.err = "ZeroDivisionError"]
          ELSE Loop2(s0, ArangeLen(ti, done, h), h, fault)

----------------------------------------------------------------------------

Outcome(op, args, err, ret, log) ==
    [op |-> op, args |-> args, err |-> err, ret |-> ret, log |-> log]

Init ==
    /\ obj \in {"firstorder", "secondorder"}
    /\ IF obj = "firstorder"
         THEN f \in Funcs1 /\ g = "none"
         ELSE f \in FuncsF /\ g \in FuncsG
    /\ ts = <<>> /\ ys = <<>> /\ us = <<>> /\ vs = <<>>
    /\ calls = 0
    /\ view = "none"
    /\ last = Outcome("__init__", <<>>, "none", <<>>, <<>>)

Solve1 ==
    /\ obj = "firstorder"
    /\ calls < MaxCalls
    /\ calls' = calls + 1
    /\ \E ti \in TiVals, yi \in YVals, done \in DoneVals, h \in HVals, fault \in Faults :
         \E r \in {SolveFirst(ts, ys, ti, yi, done, h, fault)} :
             /\ ts' = r.ts
             /\ ys' = r.ys
             /\ last' = Outcome("solve", <<ti, yi, done, h>>, r.err,
                                IF r.err = "none" THEN <<r.yi>> ELSE <<>>, r.log)
    /\ UNCHANGED <<obj, f, g, us, vs, view>>

Solve2 ==
    /\ obj = "secondorder"
    /\ calls < MaxCalls
    /\ calls' = calls + 1
    /\ \E ti \in TiVals, ui \in UVals, vi \in VVals, done \in DoneVals,
          h \in HVals, fault \in Faults :
         \E r \in {SolveSecond(ts, us, vs, ti, ui, vi, done, h, fault)} :
             /\ ts' = r.ts
             /\ us' = r.us
             /\ vs' = r.vs
             /\ last' = Outcome("solve", <<ti, ui, vi, done, h>>, r.err,
                                IF r.err = "none" THEN <<r.ui, r.vi>> ELSE <<>>,
                                r.log)
    /\ UNCHANGED <<obj, f, g, ys, view>>

\* firstorder.emptyvalues(): self.ts and self.ys are bound to new lists, so
\* a tuple handed out by graphvalues() before no longer refers to them
Emptyvalues1 ==
    /\ obj = "firstorder"
    /\ ts' = <<>>
    /\ ys' = <<>>
    /\ view' = IF view = "none" THEN "none" ELSE "detached"
    /\ last' = Outcome("emptyvalues", <<>>, "none", <<>>, <<>>)
    /\ UNCHANGED <<obj, f, g, us, vs, calls>>

\* firstorder.graphvalues(): returns the list objects self.ts and self.ys
\* themselves
Graphvalues1 ==
    /\ obj = "firstorder"
    /\ view' = "alias"
    /\ last' = Outcome("graphvalues", <<>>, "none", <<ts, ys>>, <<>>)
    /\ UNCHANGED <<obj, f, g, ts, ys, us, vs, calls>>

\* class secondorder defines neither emptyvalues nor graphvalues: the call
\* is an AttributeError and changes nothing
NoMethod2 ==
    /\ obj = "secondorder"
    /\ \E m \in {"emptyvalues", "graphvalues"} :
         last' = Outcome(m, <<>>, "AttributeError", <<>>, <<>>)
    /\ UNCHANGED <<obj, f, g, ts, ys, us, vs, calls, view>>

\* the caller appends x to the first list of the tuple graphvalues() gave it
CallerAppend ==
    /\ view # "none"
    /\ Len(ts) < MaxHist
    /\ \E x \in {0} :
         /\ ts' = IF view = "alias" THEN Append(ts, x) ELSE ts
         /\ last' = Outcome("caller:append", <<x>>, "none", <<>>, <<>>)
    /\ UNCHANGED <<obj, f, g, ys, us, vs, calls, view>>

\* the caller empties the second list of that tuple (del ys[:])
CallerClear ==
    /\ view # "none"
    /\ ys' = IF view = "alias" THEN <<>> ELSE ys
    /\ last' = Outcome("caller:clear", <<>>, "none", <<>>, <<>>)
    /\ UNCHANGED <<obj, f, g, ts, us, vs, calls, view>>

\* method calls only
NextCalls ==
    \/ Solve1
    \/ Solve2
    \/ Emptyvalues1
    \/ NoMethod2

Next ==
    \/ Solve1
    \/ Solve2
    \/ Emptyvalues1
    \/ Graphvalues1
    \/ NoMethod2
    \/ CallerAppend
    \/ CallerClear

Spec == Init /\ [][Next]_vars

\* the caller only calls solve and emptyvalues
SpecCalls == Init /\ [][NextCalls]_vars
----------------------------------------------------------------------------
(* Vocabulary of the properties *)

ArgT(l)    == l.args[1]
ArgDone(l) == l.args[Len(l.args) - 1]
ArgH(l)    == l.args[Len(l.args)]

\* slope-function invocations per step
Stages == IF obj = "firstorder" THEN 4 ELSE 8

\* steps of the call whose stages were all evaluated
StepsOf(l) == Len(l.log) \div Stages

\* the call met a slope function that raised or returned a non-number
SlopeFailed(l) == l.op = "solve" /\ \E e \in 1..Len(l.log) : l.log[e].out # "num"

\* the step during which that happened
FailingStep(l) ==
    LET e == CHOOSE i \in 1..Len(l.log) : l.log[i].out # "num"
    IN  (e - 1) \div Stages + 1

\* new is old followed by n more entries
Extends(new, old, n) == Len(new) = Len(old) + n /\ SubSeq(new, 1, Len(old)) = old

\* markers ti, ti + h, ti + 2h, ... below done (h > 0, done > ti)
Markers(l) == {i \in 0..(ArgDone(l) - ArgT(l)) : ArgT(l) + i * ArgH(l) < ArgDone(l)}

----------------------------------------------------------------------------
(* C1 *)

\* C1: when a slope function raises or returns a non-number during step k of
\* a solve call, the call ends in an error and every history sequence is what
\* it was before step k: the entries of the k-1 completed steps and nothing
\* of step k.
C1_AllOrNothing ==
    [][SlopeFailed(last') =>
         /\ last'.err # "none"
         /\ LET k == FailingStep(last')
            IN  /\ Extends(ts', ts, k - 1)
                /\ IF obj = "firstorder"
                     THEN Extends(ys', ys, k - 1)
                     ELSE Extends(us', us, k - 1) /\ Extends(vs', vs, k - 1)]_vars

----------------------------------------------------------------------------
(* C2 *)

EqualLength ==
    IF obj = "firstorder"
      THEN Len(ts) = Len(ys)
      ELSE Len(ts) = Len(us) /\ Len(us) = Len(vs)

AppendOnly ==
    /\ last'.op = "solve" =>
         /\ Len(ts') >= Len(ts) /\ SubSeq(ts', 1, Len(ts)) = ts
         /\ Len(ys') >= Len(ys) /\ SubSeq(ys', 1, Len(ys)) = ys
         /\ Len(us') >= Len(us) /\ SubSeq(us', 1, Len(us)) = us
         /\ Len(vs') >= Len(vs) /\ SubSeq(vs', 1, Len(vs)) = vs
    /\ (Len(ts') < Len(ts) \/ Len(ys') < Len(ys) \/ Len(us') < Len(us)
          \/ Len(vs') < Len(vs)) => last'.op = "emptyvalues"

\* C2: after construction and after any sequence of solve and reset calls,
\* however each solve ended, the history sequences of the object have equal
\* length; solve only appends to them and only reset empties them.
C2_HistoryInvariant == []EqualLength /\ [][AppendOnly]_vars

----------------------------------------------------------------------------
(* C3 *)

ZeroStepSize(l, e) ==
    (l.op = "solve" /\ ArgH(l) = 0) => l.err = e /\ l.log = <<>>

\* C3 as stated: solve with h = 0 signals InvalidStepSize, evaluates no slope
\* function and leaves the history unchanged.
C3_InvalidStepSize ==
    [][ZeroStepSize(last', "InvalidStepSize") /\
       ((last'.op = "solve" /\ ArgH(last') = 0) =>
            UNCHANGED <<ts, ys, us, vs>>)]_vars

\* C3 amended: solve with h = 0 ends in the error of the range construction
\* (ZeroDivisionError), evaluates no slope function and leaves the history
\* unchanged.
C3_ZeroDivision ==
    [][ZeroStepSize(last', "ZeroDivisionError") /\
       ((last'.op = "solve" /\ ArgH(last') = 0) =>
            UNCHANGED <<ts, ys, us, vs>>)]_vars

C3_Witness ==
    /\ last.op = "solve" /\ ArgH(last) = 0 /\ last.err # "none"
    /\ Len(ts) > 0

----------------------------------------------------------------------------
(* C4 *)

Forward(l) == l.op = "solve" /\ ArgH(l) > 0 /\ ArgDone(l) > ArgT(l)

\* C4: for h > 0 and done > ti, a solve call that returns normally appends
\* exactly N entries to each history sequence, N being the number of markers
\* ti, ti + h, ... below done, which is ceil((done - ti) / h).
C4_StepCount ==
    [][(Forward(last') /\ last'.err = "none") =>
         LET N == Cardinality(Markers(last'))
             d == ArgDone(last') - ArgT(last')
             h == ArgH(last')
         IN  /\ (N - 1) * h < d /\ d <= N * h
             /\ Len(ts') = Len(ts) + N
             /\ IF obj = "firstorder"
                  THEN Len(ys') = Len(ys) + N
                  ELSE Len(us') = Len(us) + N /\ Len(vs') = Len(vs) + N]_vars

C4_Witness ==
    /\ Forward(last) /\ last.err = "none"
    /\ (ArgDone(last) - ArgT(last)) % ArgH(last) # 0
    /\ Cardinality(Markers(last)) = 3
    /\ Len(ts) >= 3

----------------------------------------------------------------------------
(* C5 *)

Backward(l) == l.op = "solve" /\ ArgH(l) > 0 /\ ArgT(l) >= ArgDone(l)

\* the initial dependent value(s) among the arguments of a solve call
InitialValues(l) == SubSeq(l.args, 2, Len(l.args) - 2)

\* C5: if ti >= done and h > 0, solve calls no slope function, appends
\* nothing and returns the initial value(s) unchanged.
C5_ZeroSteps ==
    [][Backward(last') =>
         /\ last'.err = "none"
         /\ last'.log = <<>>
         /\ last'.ret = InitialValues(last')
         /\ UNCHANGED <<ts, ys, us, vs>>]_vars

C5_Witness ==
    /\ Backward(last) /\ ArgT(last) = ArgDone(last)
    /\ last.ret = InitialValues(last)
    /\ Len(ts) > 0

----------------------------------------------------------------------------
(* C6 *)

\* C6: a solve call that returns normally keeps the history it found as a
\* prefix and appends one entry per step of its own, so two calls in a row
\* leave the sum of their step counts; its first step starts from the ti and
\* the initial value(s) of its own arguments, not from where the previous
\* call ended.
C6_Accumulates ==
    [][(last'.op = "solve" /\ last'.err = "none") =>
         LET n == StepsOf(last')
         IN  /\ Extends(ts', ts, n)
             /\ IF obj = "firstorder"
                  THEN Extends(ys', ys, n)
                  ELSE Extends(us', us, n) /\ Extends(vs', vs, n)
             /\ n > 0 =>
                  /\ ts'[Len(ts) + 1] = ArgT(last') + ArgH(last')
                  /\ IF obj = "firstorder"
                       THEN last'.log[1].args = <<last'.args[1], last'.args[2]>>
                       ELSE /\ last'.log[1].args = <<last'.args[3]>>
                            /\ last'.log[2].args =
                                 <<last'.args[3], last'.args[2], last'.args[1]>>]_vars

\* the second of two calls has run, both made steps, and the second did not
\* start at the time the first had reached
C6_Witness ==
    /\ calls = 2 /\ last.op = "solve" /\ last.err = "none"
    /\ StepsOf(last) >= 1
    /\ Len(ts) > StepsOf(last)
    /\ ts[Len(ts) - StepsOf(last)] # ArgT(last)

----------------------------------------------------------------------------
(* C7 *)

\* C7 as stated: after any sequence of solve and reset calls, successive
\* entries of ts differ by exactly the h of the most recent solve call, and
\* ts is strictly increasing.
C7_FixedStepHistory ==
    last.op = "solve" =>
        \A i \in 1..(Len(ts) - 1) :
            ts[i + 1] - ts[i] = ArgH(last) /\ ts[i + 1] > ts[i]

\* C7 amended: the entries one solve call appends to ts are ti + h,
\* ti + 2h, ... for the ti and h of that call (successive ones differ by
\* exactly h, and increase when h > 0); the entries found are kept in front
\* of them.
C7_RunFixedStep ==
    [][last'.op = "solve" =>
         /\ Len(ts') >= Len(ts)
         /\ SubSeq(ts', 1, Len(ts)) = ts
         /\ \A j \in 1..(Len(ts') - Len(ts)) :
               ts'[Len(ts) + j] = ArgT(last') + j * ArgH(last')
         /\ ArgH(last') > 0 =>
               \A j \in 2..(Len(ts') - Len(ts)) :
                   ts'[Len(ts) + j] > ts'[Len(ts) + j - 1]]_vars

\* a second call has appended a run of two or more entries behind the
\* entries of the first, and the step across the join is not its h
C7_Witness ==
    /\ calls = 2 /\ last.op = "solve" /\ last.err = "none"
    /\ StepsOf(last) >= 2
    /\ Len(ts) > StepsOf(last)
    /\ LET b == Len(ts) - StepsOf(last)
       IN  ts[b + 1] - ts[b] # ArgH(last)

----------------------------------------------------------------------------
(* C8 *)

\* C8: on either solver a reset call succeeds, leaves every history sequence
\* empty and the bound slope functions unchanged (and so does a second reset
\* after it).
C8_Reset ==
    [][last'.op = "emptyvalues" =>
         /\ last'.err = "none"
         /\ ts' = <<>> /\ ys' = <<>> /\ us' = <<>> /\ vs' = <<>>
         /\ f' = f /\ g' = g]_vars

----------------------------------------------------------------------------
(* C9 *)

\* C9: on the scalar solver, graphvalues() changes no state, and nothing the
\* caller does to the sequences it returned changes the stored history.
C9_ReadOnlyView ==
    [][(obj = "firstorder" /\
          last'.op \in {"graphvalues", "caller:append", "caller:clear"}) =>
         /\ last'.err = "none"
         /\ ts' = ts /\ ys' = ys]_vars

----------------------------------------------------------------------------
(* C10 *)

\* C10: every step of secondorder.solve evaluates K1, m1, K2, m2, K3, m3, K4,
\* m4 in this order, f on one argument (a v value) and g on (v, u, t), with
\* the arguments K1 = f(v), m1 = g(v, u, t), K2 = f(v + m1 h/2),
\* m2 = g(v + m1 h/2, u + K1 h/2, t + h/2), K3 = f(v + m2 h/2),
\* m3 = g(v + m2 h/2, u + K2 h/2, t + h/2), K4 = f(v + m3 h),
\* m4 = g(v + m3 h, u + K3 h, t + h) taken from the u, v, t at the start of
\* the step; the entries it appends are u + (h/6)(K1 + 2K2 + 2K3 + K4),
\* v + (h/6)(m1 + 2m2 + 2m3 + m4) and t + h, and solve returns the (u, v) of
\* the last step.
C10_CoupledStages ==
    (obj = "secondorder" /\ last.op = "solve" /\ last.err = "none") =>
        LET n  == Len(last.log) \div 8
            h  == ArgH(last)
            bu == Len(us) - n
            bv == Len(vs) - n
            bt == Len(ts) - n
            U0(k) == IF k = 1 THEN last.args[2] ELSE us[bu + k - 1]
            V0(k) == IF k = 1 THEN last.args[3] ELSE vs[bv + k - 1]
            T0(k) == IF k = 1 THEN last.args[1] ELSE ts[bt + k - 1]
            E(k, i) == last.log[8 * (k - 1) + i]
        IN  /\ Len(last.log) = 8 * n
            /\ \A k \in 1..n :
                 LET u  == U0(k)
                     v  == V0(k)
                     t  == T0(k)
                     K1 == E(k, 1).val
                     m1 == E(k, 2).val
                     K2 == E(k, 3).val
                     m2 == E(k, 4).val
                     K3 == E(k, 5).val
                     m3 == E(k, 6).val
                     K4 == E(k, 7).val
                     m4 == E(k, 8).val
                 IN  /\ \A i \in {1, 3, 5, 7} : E(k, i).fn = f
                     /\ \A i \in {2, 4, 6, 8} : E(k, i).fn = g
                     /\ E(k, 1).args = <<v>>
                     /\ E(k, 2).args = <<v, u, t>>
                     /\ E(k, 3).args = <<v + (m1 * h) \div 2>>
                     /\ E(k, 4).args = <<v + (m1 * h) \div 2, u + (K1 * h) \div 2,
                                         t + h \div 2>>
                     /\ E(k, 5).args = <<v + (m2 * h) \div 2>>
                     /\ E(k, 6).args = <<v + (m2 * h) \div 2, u + (K2 * h) \div 2,
                                         t + h \div 2>>
                     /\ E(k, 7).args = <<v + m3 * h>>
                     /\ E(k, 8).args = <<v + m3 * h, u + K3 * h, t + h>>
                     /\ us[bu + k] = u + (h \div 6) * (K1 + 2 * K2 + 2 * K3 + K4)
                     /\ vs[bv + k] = v + (h \div 6) * (m1 + 2 * m2 + 2 * m3 + m4)
                     /\ ts[bt + k] = t + h
            /\ last.ret = IF n = 0 THEN <<last.args[2], last.args[3]>>
                                   ELSE <<us[Len(us)], vs[Len(vs)]>>

C10_Witness ==
    /\ obj = "secondorder" /\ last.op = "solve" /\ last.err = "none"
    /\ Len(last.log) = 24
    /\ Len(us) = 3

====
